---- MODULE Spec2Model ----
(***************************************************************************)
(* A model of DeepPhonemizer's custom logic:                               *)
(*   - dp/model_utils.py  get_dedup_tokens   (specification SpecDedup)     *)
(*   - dp/text.py         SequenceTokenizer  (specification SpecTok)       *)
(*   - dp/text.py         SequenceTokenizer.decode on any indices          *)
(*                                           (specification SpecDecode)    *)
(*   - dp/text.py         LanguageTokenizer  (specification SpecLang)      *)
(*   - dp/trainer.py      Trainer.train      (specification Spec)          *)
(*   - dp/trainer.py      Trainer.train, its periodic snapshots over long  *)
(*                        runs               (specification SpecSnapshots) *)
(* The parts share no state; each specification runs one part and keeps    *)
(* the variables of the others at their idle values.                       *)
(***************************************************************************)
EXTENDS Integers, Sequences, FiniteSets, TLC

VARIABLES
    \* ---- get_dedup_tokens
    logits_batch,   \* the batch after softmax: batch x time x vocab, in tenths
    dd_i,           \* the loop variable i of line 14: elements processed so far
    out_tokens,     \* list of cons_tokens, one per processed element
    out_probs,      \* list of out_probs_i, one per processed element
    dd_ret,         \* the returned pair once the function has returned
    dd_pc,          \* "idle", "loop" or "returned"
    \* ---- SequenceTokenizer
    symbols,            \* constructor argument: the symbol list
    languages,          \* constructor argument: the language list
    lowercase,          \* self.lowercase
    append_start_end,   \* self.append_start_end
    token_to_idx,       \* self.token_to_idx, a dict in insertion order
    special_tokens,     \* self.special_tokens, a set
    end_index,          \* self.end_index
    idx_to_token,       \* self.idx_to_token, a dict in insertion order
    vocab_size,         \* self.vocab_size
    sentence,           \* argument of the last __call__
    language,           \* argument of the last __call__
    sequence,           \* result of the last __call__
    raised,             \* the exception the last __call__ raised, or "none"
    remove_special_tokens,  \* argument of the last decode
    decoded,            \* result of the last decode
    tk_pc,              \* "idle", "new", "constructed", "encoded", "decoded"
    \* ---- LanguageTokenizer
    lt_languages,   \* constructor argument: the language list
    lang_index,     \* self.lang_index, a dict in insertion order
    index_lang,     \* self.index_lang, a dict in insertion order
    lt_calls,       \* the calls made so far: operation, argument and outcome
    lt_pc,          \* "idle", "new", "constructed", "called", "returned"
    \* ---- Trainer.train
    config,         \* config['training'] and len(train_loader)
    ckpt_optimizer, \* checkpoint['optimizer']: "absent", "None" or "state"
    val_loader,     \* the validation batches as the loader yields them
    val_batches,    \* val_batches of line 52
    optimizer,      \* "unset", "fresh" or "restored"
    step,           \* model.get_step()
    training,       \* model.training: TRUE after train(), FALSE after eval()
    epoch,          \* the loop variable of line 58
    batch_i,        \* the loop variable i of line 60
    best_per,       \* best_per of line 53
    files,          \* the bundles torch.save has written, one per path
    gen,            \* what the latest pass over lines 86-95 did, with the
                    \* sample rates of a generate_samples call that returned
    min_per,        \* the lowest rate generate_samples has returned so far
    updates,        \* optimizer.step() calls of line 78 so far: the version of
                    \* the model parameters and of the optimizer state
    ran,            \* what lines 82-104 have run since the last training step
    latest_writes,  \* how often line 103 has written latest_model
    tr_pc           \* position in train

ddvars == <<logits_batch, dd_i, out_tokens, out_probs, dd_ret, dd_pc>>

tkargs == <<symbols, languages, lowercase, append_start_end>>
tkfields == <<token_to_idx, special_tokens, end_index, idx_to_token, vocab_size>>
tkcall == <<sentence, language, sequence, raised>>
tkvars == <<tkargs, tkfields, tkcall, remove_special_tokens, decoded, tk_pc>>

ltvars == <<lt_languages, lang_index, index_lang, lt_calls, lt_pc>>

trvars == <<config, ckpt_optimizer, val_loader, val_batches, optimizer, step,
            training, epoch, batch_i, best_per, files, gen, min_per, updates, ran,
            latest_writes, tr_pc>>

vars == <<ddvars, tkvars, ltvars, trvars>>

------------------------------------------------------------------------------
(* Generic helpers *)

RECURSIVE SeqMax(_)
\* Tensor.max() of a non-empty one-dimensional tensor.
SeqMax(s) ==
    IF Len(s) = 1 THEN s[1]
    ELSE LET m == SeqMax(Tail(s)) IN IF s[1] >= m THEN s[1] ELSE m

SetMax(S) == CHOOSE m \in S : \A x \in S : x <= m

\* The k-th smallest element of a finite set of integers, as a sequence.
SortedSeq(S) ==
    [j \in 1..Cardinality(S) |->
        CHOOSE x \in S : Cardinality({y \in S : y < x}) = j - 1]

\* s[a:b] of Python, 0-based and end-exclusive, for 0 <= a <= b <= len(s).
Slice(s, a, b) == [k \in 1..(b - a) |-> s[a + k]]

------------------------------------------------------------------------------
(* get_dedup_tokens, src/dp/model_utils.py *)

\* Bound: the number of cells (batch elements x timesteps) of an input batch.
MaxCells == 6

\* Softmax rows over the classes 0 (blank), 1, 2: each a probability vector in
\* tenths.  Position c+1 holds the probability of class c.
BlankRow == <<6, 2, 2>>
SoftmaxRows == {BlankRow, <<2, 5, 3>>, <<1, 8, 1>>, <<0, 1, 9>>}

\* One-hot-like row over the classes 0..5 whose arg-max is class c with
\* probability p tenths (p >= 5, so that c is the unique maximum).
PeakRow(c, p) == [k \in 1..6 |-> IF k = c + 1 THEN p ELSE IF k = ((c + 1) % 6) + 1 THEN 10 - p ELSE 0]

\* The batch of the documented example: arg-max classes [0,0,3,3,5,0,5] with
\* probabilities [_,_,0.6,0.9,0.7,_,0.8].
ExampleBatch ==
    << << PeakRow(0, 6), PeakRow(0, 6), PeakRow(3, 6), PeakRow(3, 9),
          PeakRow(5, 7), PeakRow(0, 6), PeakRow(5, 8) >> >>

Shapes == {bt \in (1..MaxCells) \X (1..MaxCells) : bt[1] * bt[2] <= MaxCells}

Batches ==
    UNION {[1..bt[1] -> [1..bt[2] -> SoftmaxRows]] : bt \in Shapes} \cup {ExampleBatch}

\* torch.max(logits, dim=-1) on one timestep: the maximal value and the index
\* of its first occurrence (classes are 0-based).
TorchMax(row) ==
    LET m == SeqMax(row)
        first == CHOOSE k \in 1..Len(row) :
                    row[k] = m /\ \A j \in 1..(k - 1) : row[j] # m
    IN  [val |-> m, idx |-> first - 1]

\* max_logits, max_indices of line 16 for one batch element.
MaxLogits(logits) == [t \in 1..Len(logits) |-> TorchMax(logits[t]).val]
MaxIndices(logits) == [t \in 1..Len(logits) |-> TorchMax(logits[t]).idx]

RECURSIVE MaskSelect(_, _)
\* values[mask] of lines 17-18: the entries of values whose mask entry holds.
MaskSelect(values, mask) ==
    IF Len(values) = 0 THEN <<>>
    ELSE (IF mask[1] THEN <<values[1]>> ELSE <<>>)
         \o MaskSelect(Tail(values), Tail(mask))

\* Mutant of NonBlankMask: the blank timesteps are kept.
NonBlankMaskKeepAll(max_indices) == [t \in 1..Len(max_indices) |-> TRUE]

\* The mask max_indices != 0 of lines 17-18.
NonBlankMask(max_indices) == [t \in 1..Len(max_indices) |-> max_indices[t] # 0]

RECURSIVE UniqueConsecutive(_)
\* torch.unique_consecutive(x, return_counts=True): one entry per maximal run
\* of equal adjacent values, with the run's length.
UniqueConsecutive(x) ==
    IF Len(x) = 0 THEN [tokens |-> <<>>, counts |-> <<>>]
    ELSE LET rest == UniqueConsecutive(Tail(x)) IN
         IF Len(x) > 1 /\ x[1] = x[2]
         THEN [tokens |-> rest.tokens,
               counts |-> <<rest.counts[1] + 1>> \o Tail(rest.counts)]
         ELSE [tokens |-> <<x[1]>> \o rest.tokens,
               counts |-> <<1>> \o rest.counts]

\* Mutant of RunConfidence: the first probability of the run, not its maximum.
RunConfidenceFirst(max_logits, ind, c) == max_logits[ind + 1]

\* max_logits[ind:ind + c].max() of line 24.
RunConfidence(max_logits, ind, c) == SeqMax(Slice(max_logits, ind, ind + c))

RECURSIVE RunProbs(_, _, _)
\* The loop of lines 21-26: one confidence per run, ind advancing by the counts.
RunProbs(max_logits, counts, ind) ==
    IF Len(counts) = 0 THEN <<>>
    ELSE <<RunConfidence(max_logits, ind, counts[1])>>
         \o RunProbs(max_logits, Tail(counts), ind + counts[1])

\* The body of the loop over the batch, lines 15-29, for one element.
DedupOne(logits) ==
    LET mask == NonBlankMask(MaxIndices(logits))
        max_logits == MaskSelect(MaxLogits(logits), mask)
        max_indices == MaskSelect(MaxIndices(logits), mask)
        uc == UniqueConsecutive(max_indices)
    IN  [tokens |-> uc.tokens, probs |-> RunProbs(max_logits, uc.counts, 0)]

\* Mutant of PadWidth: the width of the first sequence, not of the longest.
PadWidthFirst(seqs) == Len(seqs[1])

\* The width pad_sequence pads to: the longest sequence of the list.
PadWidth(seqs) == SetMax({Len(seqs[k]) : k \in 1..Len(seqs)})

\* pad_sequence(seqs, batch_first=True, padding_value=0), lines 31-32.
PadSequence(seqs) ==
    [k \in 1..Len(seqs) |->
        [j \in 1..PadWidth(seqs) |-> IF j <= Len(seqs[k]) THEN seqs[k][j] ELSE 0]]

DedupInit ==
    /\ logits_batch \in Batches
    /\ dd_i = 0
    /\ out_tokens = <<>>
    /\ out_probs = <<>>
    /\ dd_ret = <<>>
    /\ dd_pc = "loop"

DedupIdle ==
    /\ logits_batch = <<>>
    /\ dd_i = 0
    /\ out_tokens = <<>>
    /\ out_probs = <<>>
    /\ dd_ret = <<>>
    /\ dd_pc = "idle"

\* One iteration of the loop of line 14.
DedupElement ==
    /\ dd_pc = "loop"
    /\ dd_i < Len(logits_batch)
    /\ LET r == DedupOne(logits_batch[dd_i + 1]) IN
        /\ out_tokens' = Append(out_tokens, r.tokens)
        /\ out_probs' = Append(out_probs, r.probs)
    /\ dd_i' = dd_i + 1
    /\ UNCHANGED <<logits_batch, dd_ret, dd_pc>>
    /\ UNCHANGED <<tkvars, ltvars, trvars>>

\* Lines 31-34: pad both lists and return.
DedupReturn ==
    /\ dd_pc = "loop"
    /\ dd_i = Len(logits_batch)
    /\ dd_ret' = [tokens |-> PadSequence(out_tokens), probs |-> PadSequence(out_probs)]
    /\ dd_pc' = "returned"
    /\ UNCHANGED <<logits_batch, dd_i, out_tokens, out_probs>>
    /\ UNCHANGED <<tkvars, ltvars, trvars>>

DedupNext == DedupElement \/ DedupReturn

------------------------------------------------------------------------------
(* SequenceTokenizer, src/dp/text.py *)

\* Bounds: the lengths of the symbol list, the language list and a sentence.
MaxSymbols == 2
MaxLanguages == 2
MaxSentence == 2

\* A Python str is a sequence of characters, so that '<' + lang + '>' and
\* str.lower() are computed and tokens of different origin can coincide.
Str(c) == <<c>>
pad_token == Str("_")
end_token == <<"<", "e", "n", "d", ">">>

\* Symbols a symbol list is drawn from: two letters of different case and the
\* pad character.  Question stands for a symbol no symbol list holds.
SymbolUniverse == {Str("a"), Str("A"), Str("_")}
Question == Str("?")
\* Language identifiers, and the identifier "end" whose start token '<end>'
\* is the end token.
LangIds == {<<"e", "n">>, <<"d", "e">>}
LangEnd == <<"e", "n", "d">>

SeqsUpTo(S, n) == UNION {[1..m -> S] : m \in 0..n}

\* The documented example: vocabulary {a, b}, sentences [a, ?, b] and [a, b].
ExampleSymbols == <<Str("a"), Str("b")>>
ExampleSentences == {<<Str("a"), Question, Str("b")>>, <<Str("a"), Str("b")>>}

SymbolLists == SeqsUpTo(SymbolUniverse, MaxSymbols) \cup {ExampleSymbols}
LanguageLists == SeqsUpTo(LangIds, MaxLanguages) \cup {<<LangEnd>>}
Sentences == SeqsUpTo(SymbolUniverse \cup {Question}, MaxSentence) \cup ExampleSentences

\* str.lower() on the characters of the model.
LowerChar(c) == IF c = "A" THEN "a" ELSE c
Lower(str) == [k \in 1..Len(str) |-> LowerChar(str[k])]

\* '<' + lang + '>' of lines 32 and 57.
LangToken(lang) == <<"<">> \o lang \o <<">">>

\* A Python dict: the list of its items [k, v] in insertion order.
DictHas(d, key) == \E n \in 1..Len(d) : d[n].k = key
DictGet(d, key) == d[CHOOSE n \in 1..Len(d) : d[n].k = key].v
\* d[key] = value: an existing key keeps its place and takes the new value.
DictSet(d, key, value) ==
    IF DictHas(d, key)
    THEN [n \in 1..Len(d) |-> IF d[n].k = key THEN [k |-> key, v |-> value] ELSE d[n]]
    ELSE Append(d, [k |-> key, v |-> value])

\* Mutant of NextIndex: indices counted from the last one used, not the next.
NextIndexOffByOne(d) == Len(d) - 1

\* len(self.token_to_idx), the index lines 33, 35 and 38 assign.
NextIndex(d) == Len(d)

RECURSIVE AddTokens(_, _)
\* for t in tokens: d[t] = len(d)   (the loops of lines 31-33 and 37-38,
\* and the single assignment of line 35).
AddTokens(d, tokens) ==
    IF Len(tokens) = 0 THEN d
    ELSE AddTokens(DictSet(d, tokens[1], NextIndex(d)), Tail(tokens))

LangTokens(langs) == [n \in 1..Len(langs) |-> LangToken(langs[n])]

\* self.token_to_idx after line 35 (pad, start tokens, end token).
TokenToIdxHead(langs) ==
    AddTokens(AddTokens(<<[k |-> pad_token, v |-> 0]>>, LangTokens(langs)), <<end_token>>)

\* self.token_to_idx after line 38.
TokenToIdx(syms, langs) == AddTokens(TokenToIdxHead(langs), syms)

\* Mutant of SpecialTokens: the start tokens are not special.
SpecialTokensNoLang(langs) == {pad_token, end_token}

\* self.special_tokens after line 34.
SpecialTokens(langs) == {pad_token, end_token} \cup {LangToken(langs[n]) : n \in 1..Len(langs)}

RECURSIVE InvertDict(_, _)
\* {i: s for s, i in d.items()} of line 39, accumulated in item order.
InvertDict(d, acc) ==
    IF Len(d) = 0 THEN acc
    ELSE InvertDict(Tail(d), DictSet(acc, d[1].v, d[1].k))

\* The (lowercased) sentence of lines 43-44.
Normalized(lc, sent) == IF lc THEN [n \in 1..Len(sent) |-> Lower(sent[n])] ELSE sent

RECURSIVE LookupPadUnknown(_, _)
\* Mutant of Lookup: an item that is no key is mapped to the pad index.
LookupPadUnknown(d, items) ==
    IF Len(items) = 0 THEN <<>>
    ELSE <<IF DictHas(d, items[1]) THEN DictGet(d, items[1]) ELSE 0>>
         \o LookupPadUnknown(d, Tail(items))

RECURSIVE Lookup(_, _)
\* [d[c] for c in items if c in d]: lines 45 and 51.
Lookup(d, items) ==
    IF Len(items) = 0 THEN <<>>
    ELSE (IF DictHas(d, items[1]) THEN <<DictGet(d, items[1])>> ELSE <<>>)
         \o Lookup(d, Tail(items))

\* SequenceTokenizer.__call__, lines 42-48, on a tokenizer with the fields
\* t2i, end and the flags lc, ase: the returned list, or the KeyError of
\* get_start_index (line 57).
Encode(t2i, end, lc, ase, sent, lang) ==
    LET body == Lookup(t2i, Normalized(lc, sent)) IN
    IF ~ase THEN [raised |-> "none", sequence |-> body]
    ELSE IF ~DictHas(t2i, LangToken(lang)) THEN [raised |-> "KeyError", sequence |-> <<>>]
    ELSE [raised |-> "none",
          sequence |-> <<DictGet(t2i, LangToken(lang))>> \o body \o <<end>>]

\* Mutant of RemoveSpecial: the flag is ignored and nothing is removed.
RemoveSpecialNever(dec, special, flag) == dec

\* Lines 52-53.
RemoveSpecial(dec, special, flag) ==
    IF flag THEN SelectSeq(dec, LAMBDA d : d \notin special) ELSE dec

\* SequenceTokenizer.decode, lines 50-54.
Decode(i2t, special, seq, flag) == RemoveSpecial(Lookup(i2t, seq), special, flag)

TokInit ==
    /\ symbols \in SymbolLists
    /\ languages \in LanguageLists
    /\ lowercase \in BOOLEAN
    /\ append_start_end \in BOOLEAN
    /\ token_to_idx = <<>>
    /\ special_tokens = {}
    /\ end_index = 0
    /\ idx_to_token = <<>>
    /\ vocab_size = 0
    /\ sentence = <<>>
    /\ language = <<>>
    /\ sequence = <<>>
    /\ raised = "none"
    /\ remove_special_tokens = FALSE
    /\ decoded = <<>>
    /\ tk_pc = "new"

TokIdle ==
    /\ symbols = <<>>
    /\ languages = <<>>
    /\ lowercase = FALSE
    /\ append_start_end = FALSE
    /\ token_to_idx = <<>>
    /\ special_tokens = {}
    /\ end_index = 0
    /\ idx_to_token = <<>>
    /\ vocab_size = 0
    /\ sentence = <<>>
    /\ language = <<>>
    /\ sequence = <<>>
    /\ raised = "none"
    /\ remove_special_tokens = FALSE
    /\ decoded = <<>>
    /\ tk_pc = "idle"

\* SequenceTokenizer.__init__, lines 26-40.
TokConstruct ==
    /\ tk_pc = "new"
    /\ token_to_idx' = TokenToIdx(symbols, languages)
    /\ special_tokens' = SpecialTokens(languages)
    /\ end_index' = DictGet(TokenToIdxHead(languages), end_token)
    /\ idx_to_token' = InvertDict(token_to_idx', <<>>)
    /\ vocab_size' = Len(idx_to_token')
    /\ tk_pc' = "constructed"
    /\ UNCHANGED <<tkargs, tkcall, remove_special_tokens, decoded>>
    /\ UNCHANGED <<ddvars, ltvars, trvars>>

\* SequenceTokenizer.__call__ on some sentence and on a listed language or
\* on "de", listed or not.
TokCall ==
    /\ tk_pc = "constructed"
    /\ \E sent \in Sentences,
          lang \in {languages[n] : n \in 1..Len(languages)} \cup {<<"d", "e">>} :
          LET r == Encode(token_to_idx, end_index, lowercase, append_start_end, sent, lang)
          IN  /\ sentence' = sent
              /\ language' = lang
              /\ sequence' = r.sequence
              /\ raised' = r.raised
    /\ tk_pc' = "encoded"
    /\ UNCHANGED <<tkargs, tkfields, remove_special_tokens, decoded>>
    /\ UNCHANGED <<ddvars, ltvars, trvars>>

\* SequenceTokenizer.decode on the sequence __call__ returned.
TokDecode ==
    /\ tk_pc = "encoded"
    /\ raised = "none"
    /\ \E flag \in BOOLEAN :
          /\ remove_special_tokens' = flag
          /\ decoded' = Decode(idx_to_token, special_tokens, sequence, flag)
    /\ tk_pc' = "decoded"
    /\ UNCHANGED <<tkargs, tkfields, tkcall>>
    /\ UNCHANGED <<ddvars, ltvars, trvars>>

TokNext == TokConstruct \/ TokCall \/ TokDecode

\* SequenceTokenizer.decode on any sequence of indices: those of the
\* vocabulary and some outside it.
TokDecodeAny ==
    /\ tk_pc = "constructed"
    /\ \E seq \in SeqsUpTo(0..Len(token_to_idx), MaxSentence), flag \in BOOLEAN :
          /\ sequence' = seq
          /\ remove_special_tokens' = flag
          /\ decoded' = Decode(idx_to_token, special_tokens, seq, flag)
    /\ tk_pc' = "decoded"
    /\ UNCHANGED <<tkargs, tkfields, sentence, language, raised>>
    /\ UNCHANGED <<ddvars, ltvars, trvars>>

DecodeNext == TokConstruct \/ TokDecodeAny


------------------------------------------------------------------------------
(* LanguageTokenizer, src/dp/text.py *)

\* The identifiers a LanguageTokenizer is built from and called with.
LangUniverse == LangIds \cup {LangEnd}
LtLanguageLists == SeqsUpTo(LangUniverse, MaxLanguages)

\* Mutant of Enumerate: counting from one.
EnumerateFromOne(xs) == [n \in 1..Len(xs) |-> [i |-> n, l |-> xs[n]]]

\* enumerate(languages) of lines 7-8: the pairs (i, l), counting from zero.
Enumerate(xs) == [n \in 1..Len(xs) |-> [i |-> n - 1, l |-> xs[n]]]

RECURSIVE DictFromPairs(_, _)
\* A dict comprehension: the pairs are stored in order, a repeated key
\* keeping its place and taking the later value.
DictFromPairs(pairs, acc) ==
    IF Len(pairs) = 0 THEN acc
    ELSE DictFromPairs(Tail(pairs), DictSet(acc, pairs[1].k, pairs[1].v))

\* Line 7: {l: i for i, l in enumerate(languages)}.
LangIndex(langs) ==
    LET e == Enumerate(langs)
    IN  DictFromPairs([n \in 1..Len(e) |-> [k |-> e[n].l, v |-> e[n].i]], <<>>)

\* Line 8: {i: l for i, l in enumerate(languages)}.
IndexLang(langs) ==
    LET e == Enumerate(langs)
    IN  DictFromPairs([n \in 1..Len(e) |-> [k |-> e[n].i, v |-> e[n].l]], <<>>)

\* d[key] of lines 11 and 14: the value, or KeyError.  The result field of a
\* raising call is unused.
Subscript(d, key) ==
    IF DictHas(d, key)
    THEN [raised |-> "none", result |-> <<DictGet(d, key)>>]
    ELSE [raised |-> "KeyError", result |-> <<>>]

LangTokInit ==
    /\ lt_languages \in LtLanguageLists
    /\ lang_index = <<>>
    /\ index_lang = <<>>
    /\ lt_calls = <<>>
    /\ lt_pc = "new"

LangTokIdle ==
    /\ lt_languages = <<>>
    /\ lang_index = <<>>
    /\ index_lang = <<>>
    /\ lt_calls = <<>>
    /\ lt_pc = "idle"

\* Whether the last call returned a value, to be passed to the next call.
LastReturned == lt_pc = "called" /\ lt_calls[1].raised = "none"

\* LanguageTokenizer.__init__, lines 6-8.
LangTokConstruct ==
    /\ lt_pc = "new"
    /\ lang_index' = LangIndex(lt_languages)
    /\ index_lang' = IndexLang(lt_languages)
    /\ lt_pc' = "constructed"
    /\ UNCHANGED <<lt_languages, lt_calls>>
    /\ UNCHANGED <<ddvars, tkvars, trvars>>

\* LanguageTokenizer.__call__, lines 10-11, on some identifier, or on the
\* identifier decode has just returned.
LangTokCall ==
    /\ \/ lt_pc = "constructed"
       \/ LastReturned /\ lt_calls[1].op = "decode"
    /\ \E lang \in (IF lt_pc = "constructed" THEN LangUniverse
                    ELSE {lt_calls[1].result[1]}) :
          LET r == Subscript(lang_index, lang)
          IN  lt_calls' = Append(lt_calls, [op |-> "call", arg |-> <<lang>>,
                                            raised |-> r.raised, result |-> r.result])
    /\ lt_pc' = IF lt_pc = "constructed" THEN "called" ELSE "returned"
    /\ UNCHANGED <<lt_languages, lang_index, index_lang>>
    /\ UNCHANGED <<ddvars, tkvars, trvars>>

\* LanguageTokenizer.decode, lines 13-14, on some index, or on the index
\* __call__ has just returned.
LangTokDecode ==
    /\ \/ lt_pc = "constructed"
       \/ LastReturned /\ lt_calls[1].op = "call"
    /\ \E index \in (IF lt_pc = "constructed" THEN 0..MaxLanguages
                     ELSE {lt_calls[1].result[1]}) :
          LET r == Subscript(index_lang, index)
          IN  lt_calls' = Append(lt_calls, [op |-> "decode", arg |-> <<index>>,
                                            raised |-> r.raised, result |-> r.result])
    /\ lt_pc' = IF lt_pc = "constructed" THEN "called" ELSE "returned"
    /\ UNCHANGED <<lt_languages, lang_index, index_lang>>
    /\ UNCHANGED <<ddvars, tkvars, trvars>>

LangTokNext == LangTokConstruct \/ LangTokCall \/ LangTokDecode

------------------------------------------------------------------------------
(* Trainer.train, src/dp/trainer.py *)

\* Bounds: the configured epochs, the batches of the training loader, the
\* three step intervals and the step count the model was persisted with.
MaxEpochs == 2
MaxTrainBatches == 2
MaxInterval == 2
MaxInitStep == 1
MaxSnapshots == 3

\* step // 1000 of line 98.
StepsPerK == 1000

\* A rate is a fraction num/den; math.inf is 1/0, above every rate.
Rate(n, d) == [num |-> n, den |-> d]
MathInf == Rate(1, 0)
Less(a, b) == a.num * b.den < b.num * a.den

\* What generate_samples hands to train: a rate, or None.
NoneValue == [none |-> TRUE, rate |-> Rate(0, 1)]
Some(r) == [none |-> FALSE, rate |-> r]

\* The phoneme error rates of one sample: no error, or one error per phoneme.
SamplePers == {0, 1}

\* A validation batch: one sample, with its text length and its language.
ShortDe == [text_len |-> 1, language |-> "de"]
LongEn == [text_len |-> 2, language |-> "en"]
\* The validation sets: none, one language, two languages in either order
\* of length, and two languages with unequal numbers of samples.
ValLoaders == {<<>>, <<ShortDe>>, <<ShortDe, LongEn>>, <<LongEn, ShortDe>>,
               <<ShortDe, LongEn, LongEn>>}

Configs ==
    [epochs : 1..MaxEpochs,
     steps_per_epoch : 1..MaxTrainBatches,
     validate_steps : 1..MaxInterval,
     generate_steps : 1..MaxInterval,
     checkpoint_steps : 1..MaxInterval]

\* Mutant of SortKey: the text length itself, for an increasing order.
SortKeyAscending(b) == b.text_len

\* The key of line 52: -x['text_len'][0].
SortKey(b) == 0 - b.text_len

RECURSIVE SortValBatches(_)
\* Line 52, sorted(val_loader, key=...): stable, each batch placed after the
\* batches whose key is not greater.
SortValBatches(xs) ==
    IF Len(xs) = 0 THEN <<>>
    ELSE LET rest == SortValBatches(SubSeq(xs, 1, Len(xs) - 1))
             x == xs[Len(xs)]
             n == Cardinality({m \in 1..Len(rest) : SortKey(rest[m]) <= SortKey(x)})
         IN  SubSeq(rest, 1, n) \o <<x>> \o SubSeq(rest, n + 1, Len(rest))

\* TransformerModel.forward in the training step: the persisted step counter
\* advances by one.
StepAfterForward(s) == s + 1

\* The decorator ignore_exception around generate_samples: an exception
\* raised inside is caught and the call returns None.
IgnoreException(outcome) == IF outcome.raised THEN NoneValue ELSE Some(outcome.rate)

RECURSIVE SumSeq(_)
SumSeq(xs) == IF Len(xs) = 0 THEN 0 ELSE xs[1] + SumSeq(Tail(xs))

\* lang_per[lang] of lines 161-167: the rates of the samples of one language.
LangPer(batches, pers, lang) ==
    LET ix == SortedSeq({m \in 1..Len(batches) : batches[m].language = lang})
    IN  [j \in 1..Len(ix) |-> pers[ix[j]]]

RECURSIVE SumOverLanguages(_, _, _)
\* The loop of lines 175-178 over the sorted languages: count and sum_per.
SumOverLanguages(batches, pers, langs) ==
    IF Len(langs) = 0 THEN [sum_per |-> 0, count |-> 0]
    ELSE LET rest == SumOverLanguages(batches, pers, Tail(langs))
             mine == LangPer(batches, pers, langs[1])
         IN  [sum_per |-> SumSeq(mine) + rest.sum_per, count |-> Len(mine) + rest.count]

\* sorted(lang_prediction_result.keys()) of line 160, for the two languages.
SortedLanguages(batches) ==
    LET L == {batches[m].language : m \in 1..Len(batches)}
    IN  (IF "de" \in L THEN <<"de">> ELSE <<>>) \o (IF "en" \in L THEN <<"en">> ELSE <<>>)

RECURSIVE SumOfMeans(_, _, _)
\* The sum over the languages of the mean rate of each, as a fraction.
SumOfMeans(batches, pers, langs) ==
    IF Len(langs) = 0 THEN Rate(0, 1)
    ELSE LET rest == SumOfMeans(batches, pers, Tail(langs))
             mine == LangPer(batches, pers, langs[1])
         IN  Rate(SumSeq(mine) * rest.den + rest.num * Len(mine), Len(mine) * rest.den)

\* Mutant of GenerateSamples: the unweighted mean of the per-language means.
GenerateSamplesUnweighted(batches, pers, fails) ==
    LET langs == SortedLanguages(batches)
        total == SumOfMeans(batches, pers, langs)
    IN  IF fails \/ Len(langs) = 0
        THEN [raised |-> TRUE, rate |-> Rate(0, 1)]
        ELSE [raised |-> FALSE, rate |-> Rate(total.num, total.den * Len(langs))]

\* The body of generate_samples, lines 132-188, given the error rate of each
\* validation sample and whether generation or a metric raises: sum_per /
\* count, or an exception (the ZeroDivisionError of line 183 included).
GenerateSamples(batches, pers, fails) ==
    LET agg == SumOverLanguages(batches, pers, SortedLanguages(batches))
    IN  IF fails \/ agg.count = 0
        THEN [raised |-> TRUE, rate |-> Rate(0, 1)]
        ELSE [raised |-> FALSE, rate |-> Rate(agg.sum_per, agg.count)]

\* Mutant of PromoteBest: a call that returned None is promoted as well.
PromoteBestIgnoringNone(per, best) == per.none \/ Less(per.rate, best)

\* Line 91: per is not None and per < best_per.
PromoteBest(per, best) == ~per.none /\ Less(per.rate, best)

\* Mutant of SaveModel: the optimizer entry is stored in either case.
SaveModelKeepOptimizer(fs, path, m, opt) ==
    {f \in fs : f.path # path}
        \cup {[path |-> path, step |-> m.step, model |-> m.params, optimizer |-> "state"]}

\* Trainer.save_model, lines 190-200: the bundle written to path, with the
\* state_dict of the model m (its parameters and its step counter) and the
\* optimizer entry, None when save_model is called with optimizer=None.
SaveModel(fs, path, m, opt) ==
    {f \in fs : f.path # path}
        \cup {[path |-> path, step |-> m.step, model |-> m.params,
                optimizer |-> IF opt THEN "state" ELSE "None"]}

\* Mutant of Due: the step before a multiple of the interval.
DueOneEarly(s, interval) == (s + 1) % interval = 0

\* The tests of lines 82, 86 and 97: model.get_step() % interval == 0.
Due(s, interval) == s % interval = 0

\* Mutant of SnapshotPath: one file name for every step.
SnapshotPathFixed(s) == <<"model_step", 0>>

\* Lines 98-100: the file model_step_<step // 1000>k.pt.
SnapshotPath(s) == <<"model_step", s \div StepsPerK>>

\* Mutant of StartEpoch: the persisted step counter is ignored.
StartEpochZero(s, n) == 0

\* Line 56: model.get_step() // len(train_loader).
StartEpoch(s, n) == s \div n

\* The generation pass of an iteration that has not run one.
NoGen == [due |-> FALSE, raised |-> FALSE, per |-> NoneValue, wrote_best |-> FALSE,
          prev_min |-> MathInf, step |-> 0, pers |-> <<>>]

TrainInit ==
    /\ config \in Configs
    /\ ckpt_optimizer \in {"absent", "None", "state"}
    /\ val_loader \in ValLoaders
    /\ val_batches = <<>>
    /\ optimizer = "unset"
    /\ step \in 0..MaxInitStep
    /\ training = TRUE
    /\ epoch = 0
    /\ batch_i = 0
    /\ best_per = MathInf
    /\ files = {}
    /\ gen = NoGen
    /\ min_per = MathInf
    /\ updates = 0
    /\ ran = <<>>
    /\ latest_writes = 0
    /\ tr_pc = "start"

TrainIdle ==
    /\ config = [epochs |-> 0, steps_per_epoch |-> 0, validate_steps |-> 0,
                 generate_steps |-> 0, checkpoint_steps |-> 0]
    /\ ckpt_optimizer = "absent"
    /\ val_loader = <<>>
    /\ val_batches = <<>>
    /\ optimizer = "unset"
    /\ step = 0
    /\ training = TRUE
    /\ epoch = 0
    /\ batch_i = 0
    /\ best_per = MathInf
    /\ files = {}
    /\ gen = NoGen
    /\ min_per = MathInf
    /\ updates = 0
    /\ ran = <<>>
    /\ latest_writes = 0
    /\ tr_pc = "idle"

\* Lines 31-58: the optimizer, the validation batches, best_per and the first
\* epoch.  optimizer.load_state_dict(None) raises, and train with it.
TrainStart ==
    /\ tr_pc = "start"
    /\ IF ckpt_optimizer = "None"
       THEN /\ tr_pc' = "failed"
            /\ UNCHANGED <<val_batches, optimizer, epoch, batch_i, best_per>>
       ELSE /\ optimizer' = IF ckpt_optimizer = "state" THEN "restored" ELSE "fresh"
            /\ val_batches' = SortValBatches(val_loader)
            /\ best_per' = MathInf
            /\ LET start_epoch == StartEpoch(step, config.steps_per_epoch) IN
               IF start_epoch + 1 <= config.epochs
               THEN epoch' = start_epoch + 1 /\ batch_i' = 1 /\ tr_pc' = "batch"
               ELSE epoch' = start_epoch /\ batch_i' = 0 /\ tr_pc' = "done"
    /\ UNCHANGED <<config, ckpt_optimizer, val_loader, step, training, files, gen, min_per,
                   updates, ran, latest_writes>>
    /\ UNCHANGED <<ddvars, tkvars, ltvars>>

\* Lines 60-80: one training step on batch i, with its optimizer.step().
TrainBatch ==
    /\ tr_pc = "batch"
    /\ step' = StepAfterForward(step)
    /\ updates' = updates + 1
    /\ ran' = <<>>
    /\ tr_pc' = "validate"
    /\ UNCHANGED <<config, ckpt_optimizer, val_loader, val_batches, optimizer,
                   training, epoch, batch_i, best_per, files, gen, min_per,
                   latest_writes>>
    /\ UNCHANGED <<ddvars, tkvars, ltvars>>

\* Lines 82-84 with validate, lines 106-122: eval(), the loss of every
\* validation batch, train(); the division of line 122 raises on no batch.
ValidateStep ==
    /\ tr_pc = "validate"
    /\ IF Due(step, config.validate_steps)
       THEN /\ ran' = Append(ran, "validate")
            /\ IF Len(val_batches) = 0
               THEN training' = FALSE /\ tr_pc' = "failed"
               ELSE training' = TRUE /\ tr_pc' = "generate"
       ELSE UNCHANGED <<training, ran>> /\ tr_pc' = "generate"
    /\ UNCHANGED <<config, ckpt_optimizer, val_loader, val_batches, optimizer, step,
                   epoch, batch_i, best_per, files, gen, min_per, updates,
                   latest_writes>>
    /\ UNCHANGED <<ddvars, tkvars, ltvars>>

\* Lines 86-95 with generate_samples: the call, and the two best snapshots
\* when its rate is promoted.  A call that raises leaves the model in eval().
GenerateStep ==
    /\ tr_pc = "generate"
    /\ IF Due(step, config.generate_steps)
       THEN \E pers \in [1..Len(val_batches) -> SamplePers], fails \in BOOLEAN :
              LET outcome == GenerateSamples(val_batches, pers, fails)
                  per == IgnoreException(outcome)
                  promote == PromoteBest(per, best_per)
                  m == [params |-> updates, step |-> step]
              IN  /\ training' = ~outcome.raised
                  /\ ran' = Append(ran, "generate")
                  /\ files' = IF promote
                              THEN SaveModel(SaveModel(files, <<"best_model", 0>>, m, TRUE),
                                             <<"best_model_no_optim", 0>>, m, FALSE)
                              ELSE files
                  /\ ckpt_optimizer' = IF promote THEN "None" ELSE ckpt_optimizer
                  /\ gen' = [due |-> TRUE, raised |-> outcome.raised, per |-> per,
                             wrote_best |-> promote, prev_min |-> min_per, step |-> step,
                             pers |-> IF outcome.raised THEN <<>> ELSE pers]
                  /\ min_per' = IF ~per.none /\ Less(per.rate, min_per)
                                THEN per.rate ELSE min_per
       ELSE /\ gen' = [NoGen EXCEPT !.prev_min = min_per, !.step = step]
            /\ UNCHANGED <<training, files, ckpt_optimizer, min_per, ran>>
    /\ tr_pc' = "checkpoint"
    /\ UNCHANGED <<config, val_loader, val_batches, optimizer, step, epoch, batch_i,
                   best_per, updates, latest_writes>>
    /\ UNCHANGED <<ddvars, tkvars, ltvars>>

\* Lines 97-100, and the end of the iteration: the next batch of the epoch or
\* the end of the epoch.
CheckpointStep ==
    /\ tr_pc = "checkpoint"
    /\ IF Due(step, config.checkpoint_steps)
       THEN /\ files' = SaveModel(files, SnapshotPath(step),
                                  [params |-> updates, step |-> step], TRUE)
            /\ ckpt_optimizer' = "state"
            /\ ran' = Append(ran, "model_step")
       ELSE UNCHANGED <<files, ckpt_optimizer, ran>>
    /\ IF batch_i < config.steps_per_epoch
       THEN batch_i' = batch_i + 1 /\ tr_pc' = "batch"
       ELSE batch_i' = batch_i /\ tr_pc' = "epoch_end"
    /\ UNCHANGED <<config, val_loader, val_batches, optimizer, step, training, epoch,
                   best_per, gen, min_per, updates, latest_writes>>
    /\ UNCHANGED <<ddvars, tkvars, ltvars>>

\* Lines 102-104: latest_model, then the next epoch or the return of train.
EpochEnd ==
    /\ tr_pc = "epoch_end"
    /\ files' = SaveModel(files, <<"latest_model", 0>>,
                          [params |-> updates, step |-> step], TRUE)
    /\ ckpt_optimizer' = "state"
    /\ ran' = Append(ran, "latest_model")
    /\ latest_writes' = latest_writes + 1
    /\ IF epoch < config.epochs
       THEN epoch' = epoch + 1 /\ batch_i' = 1 /\ tr_pc' = "batch"
       ELSE epoch' = epoch /\ batch_i' = batch_i /\ tr_pc' = "done"
    /\ UNCHANGED <<config, val_loader, val_batches, optimizer, step, training,
                   best_per, gen, min_per, updates>>
    /\ UNCHANGED <<ddvars, tkvars, ltvars>>

\* The loop of train reduced to its training steps and periodic snapshots,
\* for runs of thousands of steps: intervals below, at and above a thousand
\* steps, and runs long enough for MaxSnapshots periodic snapshots.
CheckpointIntervals ==
    {u * a : u \in {1, StepsPerK \div 2, StepsPerK, StepsPerK + (StepsPerK \div 2)},
             a \in 1..MaxInterval}

SnapshotInit ==
    /\ config \in [epochs : {1}, steps_per_epoch : {1}, validate_steps : {1},
                    generate_steps : {1}, checkpoint_steps : CheckpointIntervals]
    /\ ckpt_optimizer = "absent"
    /\ val_loader = <<>>
    /\ val_batches = <<>>
    /\ optimizer = "fresh"
    /\ step \in 0..MaxInitStep
    /\ training = TRUE
    /\ epoch = 1
    /\ batch_i = 1
    /\ best_per = MathInf
    /\ files = {}
    /\ gen = NoGen
    /\ min_per = MathInf
    /\ updates = 0
    /\ ran = <<>>
    /\ latest_writes = 0
    /\ tr_pc = "snapshots"

\* Lines 60-80 and 97-100: one training step, and the periodic snapshot when
\* the step counter is a multiple of checkpoint_steps.
SnapshotIteration ==
    /\ tr_pc = "snapshots"
    /\ updates < config.checkpoint_steps * MaxSnapshots
    /\ step' = StepAfterForward(step)
    /\ updates' = updates + 1
    /\ IF Due(step', config.checkpoint_steps)
       THEN /\ files' = SaveModel(files, SnapshotPath(step'),
                                  [params |-> updates', step |-> step'], TRUE)
            /\ ckpt_optimizer' = "state"
            /\ ran' = <<"model_step">>
       ELSE /\ UNCHANGED <<files, ckpt_optimizer>>
            /\ ran' = <<>>
    /\ UNCHANGED <<config, val_loader, val_batches, optimizer, training, epoch, batch_i,
                   best_per, gen, min_per, latest_writes, tr_pc>>
    /\ UNCHANGED <<ddvars, tkvars, ltvars>>

Next == TrainStart \/ TrainBatch \/ ValidateStep \/ GenerateStep \/ CheckpointStep \/ EpochEnd

\* train is called on a model, a checkpoint and loaders.
Init == TrainInit /\ DedupIdle /\ TokIdle /\ LangTokIdle

Spec == Init /\ [][Next]_vars

\* A long run of train is about to take its first step.
InitSnapshots == SnapshotInit /\ DedupIdle /\ TokIdle /\ LangTokIdle

SpecSnapshots == InitSnapshots /\ [][SnapshotIteration]_vars

\* get_dedup_tokens is called on a batch.
InitDedup == DedupInit /\ TokIdle /\ LangTokIdle /\ TrainIdle

SpecDedup == InitDedup /\ [][DedupNext]_vars

\* A SequenceTokenizer is about to be constructed from its arguments.
InitTok == TokInit /\ DedupIdle /\ LangTokIdle /\ TrainIdle

SpecTok == InitTok /\ [][TokNext]_vars

\* A SequenceTokenizer with the default flags is about to be constructed,
\* to decode index sequences.
InitDecode ==
    /\ TokInit /\ lowercase /\ append_start_end
    /\ DedupIdle /\ LangTokIdle /\ TrainIdle

SpecDecode == InitDecode /\ [][DecodeNext]_vars

\* A LanguageTokenizer is about to be constructed from its language list.
InitLang == LangTokInit /\ DedupIdle /\ TokIdle /\ TrainIdle

SpecLang == InitLang /\ [][LangTokNext]_vars

------------------------------------------------------------------------------
(* Properties of get_dedup_tokens *)

\* The raw arg-max classes and probabilities of batch element k.
ArgMaxOf(k) == MaxIndices(logits_batch[k])
ProbOf(k) == MaxLogits(logits_batch[k])

\* Timesteps that open a run of a non-blank class in the raw arg-max sequence:
\* the class differs from that of the timestep right before (a blank included).
RawRunStarts(a) == {t \in 1..Len(a) : a[t] # 0 /\ (t = 1 \/ a[t - 1] # a[t])}

\* The last non-blank timestep before t, or 0.
PrevNonBlank(a, t) ==
    LET P == {u \in 1..(t - 1) : a[u] # 0} IN IF P = {} THEN 0 ELSE SetMax(P)

\* Timesteps that open a token of the code's collapse: non-blank, and the
\* nearest earlier non-blank timestep has another class.
TokenStarts(a) ==
    {t \in 1..Len(a) : a[t] # 0 /\ (PrevNonBlank(a, t) = 0 \/ a[PrevNonBlank(a, t)] # a[t])}

\* The timesteps collapsed into the j-th retained token.
Collapsed(a, j) ==
    {t \in 1..Len(a) : a[t] # 0 /\ Cardinality({u \in TokenStarts(a) : u <= t}) = j}

\* C2 (as claimed): runs of a non-blank class that a blank separates stay
\* separate tokens, each with the maximum of its own run; the documented
\* example [0,0,3,3,5,0,5] / [_,_,.6,.9,.7,_,.8] returns [3,5,5] / [.9,.7,.8].
C2_BlankSeparatedRunsKept ==
    /\ \A k \in 1..dd_i :
          LET a == ArgMaxOf(k)
              starts == SortedSeq(RawRunStarts(a))
          IN  out_tokens[k] = [j \in 1..Len(starts) |-> a[starts[j]]]
    /\ (dd_pc = "returned" /\ logits_batch = ExampleBatch) =>
          dd_ret = [tokens |-> << <<3, 5, 5>> >>, probs |-> << <<9, 7, 8>> >>]

\* C8: per element, as many confidences as tokens, and the confidence of the
\* j-th token is the maximum arg-max probability over the timesteps collapsed
\* into it (all of one class, the token's).
C8_ConfidenceIsRunMax ==
    \A k \in 1..dd_i :
        LET a == ArgMaxOf(k)
            p == ProbOf(k)
        IN  /\ Len(out_probs[k]) = Len(out_tokens[k])
            /\ Len(out_tokens[k]) = Cardinality(TokenStarts(a))
            /\ \A j \in 1..Len(out_tokens[k]) :
                  /\ \A t \in Collapsed(a, j) : a[t] = out_tokens[k][j]
                  /\ out_probs[k][j] = SetMax({p[t] : t \in Collapsed(a, j)})

\* C8 witness: a token collapsed from several timesteps of differing
\* probability whose confidence is neither the first nor the mean of them.
C8_Witness ==
    \E k \in 1..dd_i : \E j \in 1..Len(out_tokens[k]) :
        LET a == ArgMaxOf(k)
            p == ProbOf(k)
            ts == Collapsed(a, j)
        IN  /\ Cardinality(ts) = 2
            /\ out_probs[k][j] # p[SortedSeq(ts)[1]]
            /\ out_probs[k][j] = p[SortedSeq(ts)[2]]

\* C9: per element, the collapsed length is at most the number of timesteps,
\* with equality exactly when no timestep is blank and no two adjacent
\* timesteps share a class.
C9_LengthBound ==
    \A k \in 1..dd_i :
        LET a == ArgMaxOf(k) IN
        /\ Len(out_tokens[k]) <= Len(a)
        /\ Len(out_tokens[k]) = Len(a) <=>
              /\ \A t \in 1..Len(a) : a[t] # 0
              /\ \A t \in 1..(Len(a) - 1) : a[t] # a[t + 1]

\* C9 witness: an element of several timesteps, none collapsed or dropped,
\* processed next to one that lost a blank timestep.
C9_Witness ==
    /\ \E k \in 1..dd_i :
          Len(ArgMaxOf(k)) >= 2 /\ Len(out_tokens[k]) = Len(ArgMaxOf(k))
    /\ \E k \in 1..dd_i :
          /\ \E t \in 1..Len(ArgMaxOf(k)) : ArgMaxOf(k)[t] = 0
          /\ \A t \in 1..(Len(ArgMaxOf(k)) - 1) : ArgMaxOf(k)[t] # ArgMaxOf(k)[t + 1]
          /\ Len(out_tokens[k]) < Len(ArgMaxOf(k))

\* Whether row is the sequence s followed only by zeros, w wide.
PaddedTo(row, s, w) ==
    /\ Len(row) = w
    /\ Len(s) <= w
    /\ \A j \in 1..w : row[j] = IF j <= Len(s) THEN s[j] ELSE 0

\* C10: the two returned arrays have one row per element and a common width,
\* the longest collapsed length; each row is the element's collapsed sequence
\* followed by zeros; an all-blank element gives an all-zero row, and the
\* width is 0 when every element is all-blank.
C10_PaddedBatch ==
    dd_pc = "returned" =>
        LET B == Len(logits_batch)
            w == SetMax({Cardinality(TokenStarts(ArgMaxOf(k))) : k \in 1..B})
            allBlank(k) == \A t \in 1..Len(ArgMaxOf(k)) : ArgMaxOf(k)[t] = 0
        IN  /\ Len(dd_ret.tokens) = B
            /\ Len(dd_ret.probs) = B
            /\ \A k \in 1..B :
                  /\ PaddedTo(dd_ret.tokens[k], out_tokens[k], w)
                  /\ PaddedTo(dd_ret.probs[k], out_probs[k], w)
                  /\ allBlank(k) => /\ out_tokens[k] = <<>>
                                    /\ \A j \in 1..w : dd_ret.tokens[k][j] = 0
                                    /\ \A j \in 1..w : dd_ret.probs[k][j] = 0
            /\ (\A k \in 1..B : allBlank(k)) => w = 0
            /\ \E k \in 1..B : Len(out_tokens[k]) = w

\* C10 witness: collapsed lengths 3 and 1, the second row padded to 3, next
\* to the all-blank case being reachable as a row of zeros.
C10_Witness ==
    /\ dd_pc = "returned"
    /\ Len(logits_batch) = 2
    /\ Len(out_tokens[1]) = 3
    /\ Len(out_tokens[2]) = 1
    /\ dd_ret.tokens[2] = <<out_tokens[2][1], 0, 0>>
    /\ dd_ret.probs[2] = <<out_probs[2][1], 0, 0>>

\* C10 witness of the degenerate shape: every element all-blank, width 0.
C10_AllBlankReached ==
    /\ dd_pc = "returned"
    /\ Len(logits_batch) = 2
    /\ dd_ret.tokens = << <<>>, <<>> >>

------------------------------------------------------------------------------
(* Properties of SequenceTokenizer *)

Constructed == tk_pc \in {"constructed", "encoded", "decoded"}

NoDuplicates(s) == \A m, n \in 1..Len(s) : m # n => s[m] # s[n]

\* The tokens in the order __init__ inserts them.
HeadTokens == <<pad_token>> \o LangTokens(languages) \o <<end_token>>
AllTokens == HeadTokens \o symbols

\* s without the repetitions of an earlier entry.
FirstOccurrences(s) ==
    LET firsts == SortedSeq({n \in 1..Len(s) : \A m \in 1..(n - 1) : s[m] # s[n]})
    IN  [j \in 1..Len(firsts) |-> s[firsts[j]]]

\* Every symbol of the sentence is an entry of the symbol list.
OnlyListedSymbols ==
    \A n \in 1..Len(sentence) : \E m \in 1..Len(symbols) : symbols[m] = sentence[n]

ListedLanguage == \E m \in 1..Len(languages) : languages[m] = language

\* C4 (as claimed): for a listed language and a sentence of listed symbols,
\* decode(t(seq, lang), remove_special_tokens=True) = seq, whatever the flags.
C4_RoundTripAnyFlags ==
    (tk_pc = "decoded" /\ remove_special_tokens /\ ListedLanguage /\ OnlyListedSymbols)
        => decoded = sentence

\* The symbols are pairwise distinct, none is a special token, and no
\* language's start token is the end token.
SymbolsApartFromSpecials ==
    /\ NoDuplicates(symbols)
    /\ \A m \in 1..Len(symbols) : symbols[m] \notin SpecialTokens(languages)
    /\ \A m \in 1..Len(languages) : LangToken(languages[m]) # end_token

\* C4 (amended): the round trip returns seq when, in addition, the symbols
\* are pairwise distinct and apart from the special tokens, and lowercase is
\* off or every symbol of seq is its own lowercase form.
C4_RoundTrip ==
    (/\ tk_pc = "decoded" /\ remove_special_tokens
     /\ ListedLanguage /\ OnlyListedSymbols
     /\ SymbolsApartFromSpecials
     /\ lowercase => \A n \in 1..Len(sentence) : Lower(sentence[n]) = sentence[n])
        => decoded = sentence

\* C4 witness: a two-symbol sentence wrapped in start and end markers,
\* lowercased, encoded and decoded back.
C4_Witness ==
    /\ tk_pc = "decoded" /\ remove_special_tokens
    /\ ListedLanguage /\ OnlyListedSymbols /\ SymbolsApartFromSpecials
    /\ lowercase /\ append_start_end
    /\ Len(sentence) = 2 /\ sentence[1] # sentence[2]
    /\ Len(sequence) = 4
    /\ decoded = sentence

\* C5 (as claimed): a symbol list without duplicates gives
\* vocab_size = 1 + |languages| + 1 + |symbols|, for any language list.
C5_VocabSizeAnyLanguages ==
    (Constructed /\ NoDuplicates(symbols))
        => vocab_size = 1 + Len(languages) + 1 + Len(symbols)

\* C5 (amended): the count holds when pad token, start tokens, end token and
\* symbols are pairwise distinct.
C5_VocabSize ==
    (Constructed /\ NoDuplicates(AllTokens))
        => vocab_size = 1 + Len(languages) + 1 + Len(symbols)

\* C5 witness: a tokenizer of two symbols and two languages, all distinct.
C5_Witness ==
    /\ Constructed /\ NoDuplicates(AllTokens)
    /\ Len(symbols) = 2 /\ Len(languages) = 2
    /\ vocab_size = 6

\* C6 (as claimed), for language lists whose special tokens are distinct and
\* symbol lists holding no special token: the indices are 0..vocab_size-1,
\* assigned to pad, start tokens, end token and symbols in first-occurrence
\* order, injectively; a repeated symbol keeps its first index and adds no
\* entry, and vocab_size is the number of distinct tokens.
C6_DenseFirstOccurrence ==
    (/\ Constructed /\ NoDuplicates(HeadTokens)
     /\ \A m \in 1..Len(symbols) : symbols[m] \notin SpecialTokens(languages))
        => LET expected == FirstOccurrences(AllTokens) IN
           /\ Len(token_to_idx) = Len(expected)
           /\ \A n \in 1..Len(expected) :
                 /\ DictHas(token_to_idx, expected[n])
                 /\ DictGet(token_to_idx, expected[n]) = n - 1
           /\ \A m, n \in 1..Len(token_to_idx) :
                 token_to_idx[m].v = token_to_idx[n].v => m = n
           /\ vocab_size = Len(expected)

\* The symbols of the sentence __call__ looks up and finds: a symbol is
\* unknown when its looked-up form (lowercased if lowercase is set) is no key
\* of token_to_idx.
KnownOnly(sent) ==
    SelectSeq(sent, LAMBDA c : DictHas(token_to_idx, IF lowercase THEN Lower(c) ELSE c))

\* C7: for a listed language, __call__ raises nothing and returns what it
\* returns for the sentence without its unknown symbols, one index per known
\* symbol; an unknown symbol never is the cause of an exception.
C7_UnknownDropped ==
    tk_pc \in {"encoded", "decoded"} =>
        LET r == Encode(token_to_idx, end_index, lowercase, append_start_end,
                        KnownOnly(sentence), language)
        IN  /\ raised = r.raised
            /\ sequence = r.sequence
            /\ ListedLanguage =>
                  /\ raised = "none"
                  /\ Len(sequence) = Len(KnownOnly(sentence))
                                        + (IF append_start_end THEN 2 ELSE 0)

\* C7 witness: the documented example, [a, ?, b] over the vocabulary {a, b}.
C7_Witness ==
    /\ tk_pc = "encoded"
    /\ symbols = ExampleSymbols /\ languages = <<<<"e", "n">>>>
    /\ append_start_end /\ language = <<"e", "n">>
    /\ sentence = <<Str("a"), Question, Str("b")>>
    /\ sequence = <<1, 3, 4, 2>>

------------------------------------------------------------------------------
(* Properties of Trainer.train *)

\* C1 (as claimed): a generation cycle writes best_model and
\* best_model_no_optim only when the rate it returned is strictly below the
\* lowest rate any earlier cycle of the run returned.
C1_BestOnlyOnImprovement ==
    (gen.due /\ gen.wrote_best) =>
        /\ ~gen.per.none
        /\ Less(gen.per.rate, gen.prev_min)

\* C3: a generation cycle that raises returns None to train, writes no file,
\* leaves the step counter alone and hands over to the checkpoint check; the
\* loop then goes on, and the next training step advances the step counter.
C3_GenerationFailureContained ==
    [][/\ (tr_pc = "generate" /\ gen'.due /\ gen'.raised) =>
              /\ gen'.per = NoneValue
              /\ ~gen'.wrote_best
              /\ files' = files
              /\ step' = step
              /\ tr_pc' = "checkpoint"
       /\ (gen.raised /\ tr_pc \in {"checkpoint", "epoch_end"}) =>
              tr_pc' \in {"batch", "epoch_end", "done"}
       /\ (gen.raised /\ tr_pc = "batch") =>
              /\ tr_pc' = "validate"
              /\ step' = step + 1
      ]_vars

\* C3 witness: generation raised on a non-empty validation set at a step
\* where it was due, no best snapshot exists, and the next iteration's
\* training step has advanced the step counter.
C3_Witness ==
    /\ gen.due /\ gen.raised /\ ~gen.wrote_best
    /\ Len(val_batches) > 0
    /\ tr_pc = "validate"
    /\ step = gen.step + 1
    /\ \A f \in files : f.path[1] \notin {"best_model", "best_model_no_optim"}


------------------------------------------------------------------------------
(* Properties of LanguageTokenizer *)

LtConstructed == lt_pc \in {"constructed", "called", "returned"}
LtListed == {lt_languages[n] : n \in 1..Len(lt_languages)}
LtDistinct ==
    \A m, n \in 1..Len(lt_languages) : lt_languages[m] = lt_languages[n] => m = n

\* What C11 says of the calls made so far: a listed identifier is encoded to
\* a position of the list that holds it, an unlisted one raises KeyError; an
\* index of 0..L-1 is decoded to the identifier at that position; decoding
\* the index of a listed identifier gives the identifier back, and encoding
\* the identifier of an index of 0..L-1 gives the index back.
LtCallsAsClaimed ==
    LET L == Len(lt_languages) IN
    /\ Len(lt_calls) >= 1 =>
          LET c == lt_calls[1] IN
          /\ c.op = "call" =>
                IF c.arg[1] \in LtListed
                THEN /\ c.raised = "none"
                     /\ c.result[1] \in 0..(L - 1)
                     /\ lt_languages[c.result[1] + 1] = c.arg[1]
                ELSE c.raised = "KeyError"
          /\ c.op = "decode" =>
                IF c.arg[1] \in 0..(L - 1)
                THEN c.raised = "none" /\ c.result[1] = lt_languages[c.arg[1] + 1]
                ELSE c.raised = "KeyError"
    /\ Len(lt_calls) = 2 =>
          /\ lt_calls[2].raised = "none"
          /\ lt_calls[2].result = lt_calls[1].arg

\* The two dicts hold one entry per listed identifier and per position.
LtFieldsAsBuilt ==
    LtConstructed =>
        /\ {lang_index[n].k : n \in 1..Len(lang_index)} = LtListed
        /\ {index_lang[n].k : n \in 1..Len(index_lang)} = 0..(Len(lt_languages) - 1)

\* C11 (as claimed): for every language list, the tokenizer is a bijection
\* between the identifiers and 0..L-1 in input order, both round trips are
\* the identity, an unlisted identifier raises KeyError, and no call changes
\* the tokenizer.
C11_BijectionAnyList ==
    /\ [](LtFieldsAsBuilt /\ LtCallsAsClaimed)
    /\ [][LtConstructed => (lang_index' = lang_index /\ index_lang' = index_lang)]_vars

\* C11 (amended): the same, for a list of pairwise distinct identifiers.
C11_Bijection ==
    /\ [](LtDistinct => (LtFieldsAsBuilt /\ LtCallsAsClaimed))
    /\ [][LtConstructed => (lang_index' = lang_index /\ index_lang' = index_lang)]_vars

\* C11 witness: on a list of two distinct identifiers, the second position
\* decoded and its identifier encoded back to it.
C11_Witness ==
    /\ LtDistinct
    /\ Len(lt_languages) = 2
    /\ Len(lt_calls) = 2
    /\ lt_calls[1].op = "decode"
    /\ lt_calls[1].arg = <<1>>
    /\ lt_calls[2].result = <<1>>

\* C11 witness of the failing call: an unlisted identifier raised KeyError
\* on a tokenizer of distinct identifiers.
C11_KeyErrorReached ==
    /\ LtDistinct
    /\ Len(lt_languages) >= 1
    /\ Len(lt_calls) = 1
    /\ lt_calls[1].op = "call"
    /\ lt_calls[1].raised = "KeyError"

------------------------------------------------------------------------------
(* Properties of SequenceTokenizer.decode *)

\* The positions of the decoded sequence that hold an index of the vocabulary.
InVocabulary == SortedSeq({n \in 1..Len(sequence) : DictHas(idx_to_token, sequence[n])})

\* The tokens of those positions, in input order.
PlainDecoded == [j \in 1..Len(InVocabulary) |-> DictGet(idx_to_token, sequence[InVocabulary[j]])]

\* The pad token, the end token and the start token of every language.
PadEndAndStartTokens ==
    {pad_token, end_token} \cup {LangToken(languages[n]) : n \in 1..Len(languages)}

\* s without its entries in S.
Without(s, S) ==
    LET keep == SortedSeq({n \in 1..Len(s) : s[n] \notin S})
    IN  [j \in 1..Len(keep) |-> s[keep[j]]]

ListedSymbols == {symbols[n] : n \in 1..Len(symbols)}
Entries(s) == {s[n] : n \in 1..Len(s)}

\* decode returns the tokens of the in-vocabulary indices in input order,
\* skipping the other indices; with remove_special_tokens, that list without
\* the pad, end and start tokens.
DecodedAsClaimed ==
    tk_pc = "decoded" =>
        decoded = IF remove_special_tokens
                  THEN Without(PlainDecoded, PadEndAndStartTokens)
                  ELSE PlainDecoded

\* C12 (as claimed): decode is as above, and with remove_special_tokens no
\* symbol of the symbol list is removed.
C12_DecodeKeepsEverySymbol ==
    /\ DecodedAsClaimed
    /\ (tk_pc = "decoded" /\ remove_special_tokens) =>
          \A c \in Entries(PlainDecoded) \cap ListedSymbols : c \in Entries(decoded)

\* C12 (amended): decode is as above, and with remove_special_tokens no
\* symbol of the symbol list is removed unless it is itself the pad token,
\* the end token or a start token.
C12_Decode ==
    /\ DecodedAsClaimed
    /\ (tk_pc = "decoded" /\ remove_special_tokens) =>
          \A c \in (Entries(PlainDecoded) \cap ListedSymbols) \ PadEndAndStartTokens :
              c \in Entries(decoded)

\* C12 witness: a start token and a symbol decoded with
\* remove_special_tokens, only the symbol returned.
C12_Witness ==
    /\ tk_pc = "decoded"
    /\ remove_special_tokens
    /\ Len(languages) >= 1
    /\ PlainDecoded = <<LangToken(languages[1]), Str("a")>>
    /\ decoded = <<Str("a")>>

\* An index outside the vocabulary was skipped and the next one decoded.
C12_SkipReached ==
    /\ tk_pc = "decoded"
    /\ Len(sequence) = 2
    /\ ~DictHas(idx_to_token, sequence[1])
    /\ Len(decoded) = 1

------------------------------------------------------------------------------
(* Properties of Trainer.train: resuming, cadence and epochs *)

ValidationDue(s) == IF s % config.validate_steps = 0 THEN <<"validate">> ELSE <<>>
GenerationDue(s) == IF s % config.generate_steps = 0 THEN <<"generate">> ELSE <<>>
SnapshotDue(s) == IF s % config.checkpoint_steps = 0 THEN <<"model_step">> ELSE <<>>

\* The training steps of the running epoch are all done.
EpochComplete == updates > 0 /\ updates % config.steps_per_epoch = 0

\* C14: after each training step validation, generation and the periodic
\* snapshot run exactly on the multiples of their intervals, in that order;
\* latest_model is written once after the last step of every epoch and at no
\* other time.
C14_Cadence ==
    /\ tr_pc = "generate" => ran = ValidationDue(step)
    /\ tr_pc = "checkpoint" => ran = ValidationDue(step) \o GenerationDue(step)
    /\ tr_pc = "epoch_end" =>
          ran = ValidationDue(step) \o GenerationDue(step) \o SnapshotDue(step)
    /\ (tr_pc \in {"batch", "done"} /\ updates > 0) =>
          ran = ValidationDue(step) \o GenerationDue(step) \o SnapshotDue(step)
                \o (IF EpochComplete THEN <<"latest_model">> ELSE <<>>)
    /\ tr_pc \notin {"idle", "start"} =>
          latest_writes = (updates \div config.steps_per_epoch)
                          - (IF EpochComplete /\ tr_pc \notin {"batch", "done"} THEN 1 ELSE 0)
    /\ latest_writes > 0 <=> \E f \in files : f.path = <<"latest_model", 0>>

\* C14 witness: train has returned after two epochs of two steps, having run
\* only the snapshot after the third step and everything after the fourth.
C14_Witness ==
    /\ tr_pc = "done"
    /\ config.steps_per_epoch = 2
    /\ updates = 4
    /\ step = 4
    /\ config.validate_steps = 2
    /\ config.generate_steps = 2
    /\ config.checkpoint_steps = 1
    /\ ran = <<"validate", "generate", "model_step", "latest_model">>
    /\ latest_writes = 2

\* The step counter train started with, and start_epoch computed from it.
PersistedStep == step - updates
ClaimedStartEpoch == PersistedStep \div config.steps_per_epoch

\* max(0, epochs - start_epoch) * steps_per_epoch.
ClaimedSteps ==
    (IF config.epochs > ClaimedStartEpoch THEN config.epochs - ClaimedStartEpoch ELSE 0)
        * config.steps_per_epoch

\* Where train is within its epochs: the epochs run are start_epoch+1 ..
\* epochs, batch i of each is training step i of a full pass, and no more
\* than the claimed number of steps is ever done.
EpochsAsClaimed ==
    /\ tr_pc = "batch" =>
          /\ epoch = ClaimedStartEpoch + 1 + (updates \div config.steps_per_epoch)
          /\ batch_i = (updates % config.steps_per_epoch) + 1
          /\ epoch <= config.epochs
    /\ tr_pc \in {"validate", "generate", "checkpoint", "epoch_end"} =>
          /\ epoch = ClaimedStartEpoch + 1 + ((updates - 1) \div config.steps_per_epoch)
          /\ batch_i = ((updates - 1) % config.steps_per_epoch) + 1
          /\ epoch <= config.epochs
    /\ tr_pc \notin {"idle", "start"} => updates <= ClaimedSteps
    /\ tr_pc = "done" => updates = ClaimedSteps
    /\ (tr_pc \notin {"idle", "start"} /\ ClaimedStartEpoch >= config.epochs) =>
          updates = 0 /\ files = {} /\ tr_pc \in {"done", "failed"}

\* How far train is from its end: the training steps left, and within an
\* iteration the statements left.
Rank ==
    6 * (ClaimedSteps - updates)
      + (CASE tr_pc = "start" -> 1
           [] tr_pc = "validate" -> 5
           [] tr_pc = "generate" -> 4
           [] tr_pc = "checkpoint" -> 3
           [] tr_pc = "epoch_end" -> 2
           [] OTHER -> 0)

\* C15: train runs epochs start_epoch+1 .. epochs, each a full pass, so a
\* call that returns has done max(0, epochs - start_epoch) * steps_per_epoch
\* steps; it does no step and writes no file when start_epoch >= epochs; and
\* it terminates: every step of train brings it nearer to its end.
C15_EpochsAndTermination ==
    /\ []EpochsAsClaimed
    /\ [][Rank' < Rank /\ Rank' >= 0]_vars

\* C15 witness: train resumed one step into the first of two epochs of two
\* steps and has returned after four steps, at step count five.
C15_Witness ==
    /\ tr_pc = "done"
    /\ config.epochs = 2
    /\ config.steps_per_epoch = 2
    /\ PersistedStep = 1
    /\ updates = 4

\* A call with no epoch left has returned without a step or a file.
C15_NothingLeftReached ==
    /\ tr_pc = "done"
    /\ ClaimedStartEpoch >= config.epochs
    /\ updates = 0
    /\ files = {}

------------------------------------------------------------------------------
(* Properties of Trainer.train: validation and generation *)

\* How often the batch b occurs in the list xs.
Occurrences(xs, b) == Cardinality({n \in 1..Len(xs) : xs[n] = b})

\* Once built, val_batches holds the batches of the validation loader, the
\* longer texts first.
ValBatchesSorted ==
    optimizer # "unset" =>
        /\ \A n \in 1..(Len(val_batches) - 1) :
              val_batches[n].text_len >= val_batches[n + 1].text_len
        /\ Len(val_batches) = Len(val_loader)
        /\ \A n \in 1..Len(val_loader) :
              Occurrences(val_batches, val_loader[n]) = Occurrences(val_loader, val_loader[n])

\* C16: val_batches is built once, before the first epoch, in non-increasing
\* order of text length, and is the same list at every validation and
\* generation cycle; validate and generate_samples leave the model
\* parameters, the optimizer state and the step counter as they were.
C16_ValidationFrame ==
    /\ []ValBatchesSorted
    /\ [][tr_pc # "start" => val_batches' = val_batches]_vars
    /\ [][(tr_pc = "validate" \/ tr_pc = "generate") =>
            /\ updates' = updates
            /\ step' = step
            /\ optimizer' = optimizer]_vars

\* C16 witness: a validation loader that yields the short text first, after
\* a step on which validation and generation both ran on the sorted list.
C16_Witness ==
    /\ tr_pc = "checkpoint"
    /\ val_loader = <<ShortDe, LongEn, LongEn>>
    /\ val_batches = <<LongEn, LongEn, ShortDe>>
    /\ ran = <<"validate", "generate">>
    /\ updates = 2

\* The rate r is the fraction n/d.
IsFraction(r, n, d) == r.den > 0 /\ d > 0 /\ r.num * d = n * r.den

\* C17: the rate generate_samples returns is the sum of the rates of all
\* validation samples divided by their number, whatever their languages; on
\* an empty validation set it returns no value.
C17_WeightedMean ==
    gen.due =>
        /\ ~gen.raised =>
              /\ ~gen.per.none
              /\ IsFraction(gen.per.rate, SumSeq(gen.pers), Len(val_batches))
        /\ Len(val_batches) = 0 => gen.per.none

\* C17 witness: two samples of one language without errors and one sample of
\* another with rate 1: the returned rate is 1/3, where the unweighted mean
\* of the two language means is 1/2.
C17_Witness ==
    /\ gen.due
    /\ ~gen.raised
    /\ val_batches = <<LongEn, LongEn, ShortDe>>
    /\ gen.pers = <<0, 0, 1>>
    /\ IsFraction(gen.per.rate, 1, 3)
    /\ ~IsFraction(gen.per.rate, 1, 2)

\* A generation cycle on an empty validation set has returned no value.
C17_NoSampleReached ==
    /\ gen.due
    /\ Len(val_batches) = 0
    /\ gen.per.none
    /\ tr_pc = "checkpoint"

\* C18 (as claimed): every training step runs with the model in training
\* mode: when the loop is about to take a step, validate and
\* generate_samples, whether they returned or raised a caught exception,
\* have switched the model back from eval mode.
C18_StepsInTrainingMode == tr_pc = "batch" => training

------------------------------------------------------------------------------
(* Properties of Trainer.train: the snapshot files *)

\* No file written so far is written again.
NoFileOverwritten == \A f \in files : f \in files'

\* C19 (as claimed): whatever the interval, periodic snapshots at different
\* step counts go to different files, so that none overwrites an earlier one.
C19_SnapshotsNeverOverwritten == [][NoFileOverwritten]_vars

\* C19 (amended): so it is for every interval of at least a thousand steps.
C19_SnapshotsApart ==
    [][config.checkpoint_steps >= StepsPerK => NoFileOverwritten]_vars

\* C19 witness: three snapshots, 1500 steps apart, in three files.
C19_Witness ==
    /\ tr_pc = "snapshots"
    /\ config.checkpoint_steps = StepsPerK + (StepsPerK \div 2)
    /\ Cardinality(files) = 3
    /\ {f.path : f \in files} = {<<"model_step", 1>>, <<"model_step", 3>>, <<"model_step", 4>>}

\* The bundles stored under one file name: none or one.
Stored(fs, name) == {f \in fs : f.path = <<name, 0>>}

\* best_model and best_model_no_optim are both absent, or hold the same
\* parameters and step count, the first with the optimizer state and the
\* second without; every other snapshot has the optimizer state.
BestPairConsistent ==
    /\ \/ Stored(files, "best_model") = {} /\ Stored(files, "best_model_no_optim") = {}
       \/ \E b \in Stored(files, "best_model"), n \in Stored(files, "best_model_no_optim") :
             /\ b.model = n.model
             /\ b.step = n.step
             /\ b.optimizer = "state"
             /\ n.optimizer = "None"
    /\ \A f \in files :
          f.path[1] \in {"latest_model", "model_step"} => f.optimizer = "state"

\* C20: the two best snapshots exist together, are written in the same
\* generation cycle with the same parameters and step count, best_model with
\* the optimizer state and best_model_no_optim without; and no latest_model
\* or model_step snapshot is ever stored without optimizer state.
C20_BestSnapshotPair ==
    /\ []BestPairConsistent
    /\ [][(Stored(files', "best_model") # Stored(files, "best_model"))
            <=> (Stored(files', "best_model_no_optim") # Stored(files, "best_model_no_optim"))]_vars
    /\ [][(Stored(files', "best_model") # Stored(files, "best_model")) => tr_pc = "generate"]_vars

\* C20 witness: the best pair was written after the first step, and the
\* periodic snapshot and latest_model after the second, with optimizer state.
C20_Witness ==
    /\ tr_pc = "done"
    /\ \E b \in Stored(files, "best_model") : b.model = 1
    /\ \E n \in Stored(files, "best_model_no_optim") : n.model = 1 /\ n.optimizer = "None"
    /\ \E f \in Stored(files, "latest_model") : f.model = 2 /\ f.optimizer = "state"
    /\ \E f \in files : f.path[1] = "model_step" /\ f.model = 2 /\ f.optimizer = "state"
====
